---- MODULE Spec2Model ----
(***************************************************************************)
(* Model of josh's filter core (src/filter/mod.rs): the filter registry,   *)
(* the tree engine (apply / unapply), the workspace evaluator and the      *)
(* history engine (apply_to_commit).                                       *)
(*                                                                         *)
(* Representation.                                                         *)
(*  - A tree is the set of its blobs, each a pair <<path, blob>>; a path   *)
(*    is a non-empty sequence of names.  A git tree object and the set of  *)
(*    blobs below it determine each other up to empty directories, which   *)
(*    the model does not distinguish from absent ones.                     *)
(*  - A Filter is a content address of its Op (to_filter hashes the Debug  *)
(*    text of the Op).  In the engines the address of an Op is the Op term *)
(*    itself, children included; the registry behind the addresses is      *)
(*    modelled with explicit ids in SpecReg.                               *)
(*  - A JoshResult is <<"Ok", value>> or <<"Err", kind>>; a call that      *)
(*    re-enters an identical Workspace frame, which the code would repeat  *)
(*    without end, is <<"Loop", frame>>.                                   *)
(***************************************************************************)
EXTENDS Integers, Sequences, FiniteSets, TLC

VARIABLES
    \* tree engine
    pc,            \* position of the caller of the engine under check
    filter,        \* the filter under evaluation
    tree,          \* the tree handed to apply / unapply (U)
    parent_tree,   \* the tree handed to unapply as parent (P)
    un_out,        \* JoshResult of unapply(filter, tree, parent_tree)
    ap_out,        \* JoshResult of the last apply
    \* history engine
    commits,       \* the input commits, parents before children
    prune_empty,   \* create_filtered_commit's policy for a commit that filters to nothing
    memo,          \* transaction: (filter, commit id) -> commit id
    store,         \* the commits the engine has written to the repository
    out,           \* the last call of apply_to_commit: its arguments and result
    evals,         \* the calls of apply_to_commit made so far: <<commit, result>>
    \* filter registry
    FILTERS,       \* the registry: Filter id -> Op
    lock,          \* the thread holding the registry's Mutex, or NoThread
    tpc,           \* position of each thread
    targ,          \* the Op or Filter each thread is working on
    issued,        \* the Filter ids to_filter has returned
    \* the loop of unapply2's Compose arm
    loop_i,        \* the branches still to visit: filters[1..loop_i], last first
    loop_remaining,\* remaining
    loop_result,   \* result
    loop_visited   \* the iterations made: the branch, skipped or not, what it took

treeVars == <<pc, filter, tree, parent_tree, un_out, ap_out>>
histVars == <<commits, prune_empty, memo, store, out, evals>>
regVars == <<FILTERS, lock, tpc, targ, issued>>
loopVars == <<loop_i, loop_remaining, loop_result, loop_visited>>
vars == <<treeVars, histVars, regVars, loopVars>>

(***************************************************************************)
(* Results                                                                 *)
(***************************************************************************)
Ok(v) == <<"Ok", v>>
Err(kind) == <<"Err", kind>>
Loop(frame) == <<"Loop", frame>>
IsOk(r) == r[1] = "Ok"
IsErr(r) == r[1] = "Err"
IsLoop(r) == r[1] = "Loop"
Val(r) == r[2]
None == <<"None", {}>>

(***************************************************************************)
(* Paths and trees                                                         *)
(***************************************************************************)
IsPrefix(p, q) == Len(p) <= Len(q) /\ SubSeq(q, 1, Len(p)) = p
Comparable(p, q) == IsPrefix(p, q) \/ IsPrefix(q, p)
Strip(p, q) == SubSeq(q, Len(p) + 1, Len(q))

empty_tree == {}

\* tree.get_path(path): the object at path, a blob, a tree or nothing.
get_path(t, path) ==
    IF \E e \in t : e[1] = path
    THEN <<"blob", (CHOOSE e \in t : e[1] = path)[2]>>
    ELSE IF \E e \in t : IsPrefix(path, e[1])
         THEN <<"tree", {<<Strip(path, e[1]), e[2]>> : e \in {x \in t : IsPrefix(path, x[1])}}>>
         ELSE None

\* The entries an object contributes when it is mounted at path.
Mount(path, obj) ==
    IF obj[1] = "blob" THEN {<<path, obj[2]>>}
    ELSE IF obj[1] = "tree" THEN {<<path \o e[1], e[2]>> : e \in obj[2]}
    ELSE {}

\* treeops::overlay(a, b): b's entries win on conflict, recursively.
overlay(a, b) == {e \in a : \A x \in b : ~Comparable(e[1], x[1])} \cup b

\* treeops::subtract_fast(a, b): a minus every entry b holds identically.
subtract_fast(a, b) == a \ b

\* treeops::replace_subtree(path, id, base): base with the entry at path
\* replaced by the object id.
replace_subtree(path, obj, base) ==
    {e \in base : ~Comparable(e[1], path)} \cup Mount(path, obj)

DirMarker == "dirs.marker"
DirBlob == "marker"

\* treeops::dirtree(root): a marker entry in every non-empty directory below
\* the root.
dirtree(t) ==
    UNION {{<<SubSeq(e[1], 1, n) \o <<DirMarker>>, DirBlob>> :
                n \in 1..(Len(e[1]) - 1)} : e \in t}

\* treeops::compose(trees): order-preserving overlay, later trees win.
RECURSIVE compose(_)
compose(trees) ==
    IF trees = <<>> THEN empty_tree
    ELSE overlay(compose(SubSeq(trees, 1, Len(trees) - 1)), trees[Len(trees)])

(***************************************************************************)
(* Op: the operator variants (enum Op)                                     *)
(***************************************************************************)
Nop == <<"Nop">>
Empty == <<"Empty">>
Fold == <<"Fold">>
Squash == <<"Squash">>
Dirs == <<"Dirs">>
File(path) == <<"File", path>>
Prefix(path) == <<"Prefix", path>>
Subdir(path) == <<"Subdir", path>>
Workspace(path) == <<"Workspace", path>>
Glob(pattern) == <<"Glob", pattern>>
Compose(filters) == <<"Compose", filters>>
Chain(a, b) == <<"Chain", a, b>>
Subtract(a, b) == <<"Subtract", a, b>>

\* In the engines a Filter is the content address of its Op.
to_filter(op) == op
to_op(f) == f

(***************************************************************************)
(* Glob patterns: a pattern is a sequence of components, "*" matching one  *)
(* whole name (require_literal_separator), "[" an unclosed character class *)
(* that glob::Pattern::new rejects.                                        *)
(***************************************************************************)
PatternNew(pattern) ==
    IF \E i \in 1..Len(pattern) : pattern[i] = "[" THEN Err("InvalidPattern")
    ELSE Ok(pattern)

matches_path_with(pattern, path) ==
    /\ Len(pattern) = Len(path)
    /\ \A i \in 1..Len(pattern) : pattern[i] = "*" \/ pattern[i] = path[i]

\* treeops::subtract_tree(root, |path, isblob| isblob && pattern.matches(path)):
\* the blobs of the tree whose path matches the pattern, empty directories
\* collapsed.
subtract_tree(t, pattern) == {e \in t : matches_path_with(pattern, e[1])}

(***************************************************************************)
(* Blobs and their content.  A text is a sequence of lines as the          *)
(* workspace_file grammar splits it: <<"file_entry", path, spec>>,         *)
(* <<"filter_spec", spec>>, or <<"junk">> for a line the grammar rejects.  *)
(* A spec is <<"empty">>, <<"chain", items>> (the filter_chain grammar     *)
(* matched) or <<"ws", text>> (it did not); an item is a pair of the       *)
(* grammar: its rule and its inner strings.                                *)
(***************************************************************************)
WsFile == "workspace.josh"

SpecSubdirB == <<"chain", << <<"filter_subdir", <<"b">>>> >>>>
SpecWorkspaceA == <<"chain", << <<"filter", "workspace", <<"a">>>> >>>>
SpecBogus == <<"chain", << <<"filter_noarg", "bogus">> >>>>

Content(blob) ==
    CASE blob = "x" -> [utf8 |-> FALSE, text |-> <<>>]
      [] blob = "y" -> [utf8 |-> TRUE, text |-> << <<"junk">> >>]
      [] blob = "ws_lib" ->
            [utf8 |-> TRUE, text |-> << <<"file_entry", <<"lib">>, SpecSubdirB>> >>]
      [] blob = "ws_self" ->
            [utf8 |-> TRUE, text |-> << <<"filter_spec", SpecWorkspaceA>> >>]
      [] blob = "ws_bogus" ->
            [utf8 |-> TRUE, text |-> << <<"filter_spec", SpecBogus>> >>]
      [] OTHER -> [utf8 |-> FALSE, text |-> <<>>]

(***************************************************************************)
(* opt::optimize: the canonical form of a filter.  Nop is the identity of  *)
(* Chain, Empty absorbs in Chain, nested Chains are left-associated, a     *)
(* Compose of one element is that element.                                 *)
(***************************************************************************)
RECURSIVE optimize(_)
optimize(f) ==
    LET op == to_op(f) IN
    CASE op[1] = "Chain" ->
            LET a == optimize(op[2])
                b == optimize(op[3])
            IN  IF a = Empty \/ b = Empty THEN to_filter(Empty)
                ELSE IF a = Nop THEN b
                ELSE IF b = Nop THEN a
                ELSE IF b[1] = "Chain"
                     THEN optimize(to_filter(Chain(to_filter(Chain(a, b[2])), b[3])))
                     ELSE to_filter(Chain(a, b))
      [] op[1] = "Compose" ->
            IF Len(op[2]) = 1 THEN optimize(op[2][1])
            ELSE IF Len(op[2]) = 0 THEN f
            ELSE to_filter(Compose([i \in 1..Len(op[2]) |-> optimize(op[2][i])]))
      [] op[1] = "Subtract" ->
            to_filter(Subtract(optimize(op[2]), optimize(op[3])))
      [] OTHER -> f

(***************************************************************************)
(* Parser: make_op, parse_item, parse_file_entry, build_compose_filter,    *)
(* parse                                                                   *)
(***************************************************************************)
make_op(args) ==
    CASE args = <<"nop">> -> Ok(Nop)
      [] args = <<"empty">> -> Ok(Empty)
      [] Len(args) = 2 /\ args[1] = "prefix" -> Ok(Prefix(args[2]))
      [] Len(args) = 2 /\ args[1] = "workspace" -> Ok(Workspace(args[2]))
      [] args = <<"SQUASH">> -> Ok(Squash)
      [] args = <<"DIRS">> -> Ok(Dirs)
      [] args = <<"FOLD">> -> Ok(Fold)
      [] OTHER -> Err("ParseError")

chain(first, second) == to_filter(Chain(first, second))

\* Every call of the parser into itself goes through parser: its argument is
\* the callee's name followed by the callee's arguments.
RECURSIVE parser(_)

build_compose_filter(filter_spec) == parser(<<"build_compose_filter", filter_spec>>)

parse(filter_spec) == parser(<<"parse", filter_spec>>)

parse_item(pair) ==
    CASE pair[1] = "filter" -> make_op(<<pair[2], pair[3]>>)
      [] pair[1] = "filter_subdir" -> Ok(Subdir(pair[2]))
      [] pair[1] = "filter_presub" ->
            IF pair[3]   \* arg.ends_with("/")
            THEN LET pre == make_op(<<"prefix", pair[2]>>) IN
                 IF IsOk(pre)
                 THEN Ok(Chain(to_filter(Subdir(pair[2])), to_filter(Val(pre))))
                 ELSE pre
            ELSE IF \E i \in 1..Len(pair[2]) : pair[2][i] = "*"
                 THEN Ok(Glob(pair[2]))
                 ELSE Ok(File(pair[2]))
      [] pair[1] = "filter_noarg" -> make_op(<<pair[2]>>)
      [] pair[1] = "filter_compose" ->
            LET v == build_compose_filter(pair[2]) IN
            IF IsOk(v) THEN Ok(Compose(Val(v))) ELSE v
      [] pair[1] = "filter_exclude" ->
            LET v == build_compose_filter(pair[2]) IN
            IF IsOk(v)
            THEN Ok(Subtract(to_filter(Nop), to_filter(Compose(Val(v)))))
            ELSE v
      [] OTHER -> Err("ParseError")

\* The loop of parse over the items of a chain; acc is None or the Op so far.
parse_items(items, acc) ==
    IF items = <<>> THEN Ok(acc)
    ELSE LET v == parse_item(Head(items)) IN
         IF ~IsOk(v) THEN v
         ELSE parser(<<"parse_items", Tail(items),
                       IF acc = None THEN Val(v)
                       ELSE Chain(to_filter(acc), to_filter(Val(v)))>>)

parse_body(filter_spec) ==
    CASE filter_spec[1] = "empty" ->
            parse(<<"chain", << <<"filter_noarg", "nop">> >>>>)
      [] filter_spec[1] = "chain" ->
            LET r == parse_items(filter_spec[2], None) IN
            IF ~IsOk(r) THEN r
            ELSE Ok(optimize(to_filter(IF Val(r) = None THEN Nop ELSE Val(r))))
      [] OTHER ->
            LET v == build_compose_filter(filter_spec[2]) IN
            IF IsOk(v) THEN Ok(optimize(to_filter(Compose(Val(v))))) ELSE v

\* parse_file_entry on one pair, pushing onto filters.
parse_file_entry(pair, filters) ==
    CASE pair[1] = "file_entry" ->
            LET path == pair[2]
                text == IF pair[3] = None
                        THEN <<"chain", << <<"filter_subdir", path>> >>>>
                        ELSE pair[3]
                f == parse(text)
            IN  IF IsOk(f)
                THEN Ok(Append(filters, chain(Val(f), to_filter(Prefix(path)))))
                ELSE f
      [] pair[1] = "filter_spec" ->
            LET f == parse(pair[2]) IN
            IF IsOk(f) THEN Ok(Append(filters, Val(f))) ELSE f
      [] pair[1] = "EOI" -> Ok(filters)
      [] OTHER -> Err("ParseError")

\* The loop of build_compose_filter over the pairs of the parsed file.
parse_entries(pairs, filters) ==
    IF pairs = <<>> THEN Ok(filters)
    ELSE LET r == parse_file_entry(Head(pairs), filters) IN
         IF IsOk(r) THEN parser(<<"parse_entries", Tail(pairs), Val(r)>>) ELSE r

\* MyParser::parse(Rule::workspace_file, text) succeeds when every line is an
\* entry of the grammar.
ParsesAsWorkspaceFile(text) == \A i \in 1..Len(text) : text[i][1] # "junk"

build_compose_filter_body(filter_spec) ==
    IF ParsesAsWorkspaceFile(filter_spec)
    THEN parse_entries(filter_spec, <<>>)
    ELSE Err("ParseError")

parser(c) ==
    CASE c[1] = "parse" -> parse_body(c[2])
      [] c[1] = "build_compose_filter" -> build_compose_filter_body(c[2])
      [] c[1] = "parse_items" -> parse_items(c[2], c[3])
      [] c[1] = "parse_entries" -> parse_entries(c[2], c[3])

\* string_blob: the UTF-8 text of the blob at path, "" when there is none.
string_blob(t, path) ==
    LET entry == get_path(t, path) IN
    IF entry[1] # "blob" THEN <<>>
    ELSE IF ~Content(entry[2]).utf8 THEN <<>>
    ELSE Content(entry[2]).text

unwrap_or(r, default) == IF IsOk(r) THEN Val(r) ELSE default

compose_filter_from_ws_no_fail(t, ws_path) ==
    LET cw == unwrap_or(build_compose_filter(string_blob(t, ws_path \o <<WsFile>>)),
                        <<>>)
    IN  Ok(<<to_filter(Subdir(ws_path))>> \o cw)

(***************************************************************************)
(* Tree engine: apply2 and unapply2.  stack holds the Workspace frames     *)
(* that are being evaluated, as the call stack of the code does.           *)
(***************************************************************************)
apply_Glob(pattern, t) ==
    LET pat == PatternNew(pattern) IN
    IF ~IsOk(pat) THEN pat
    ELSE Ok(subtract_tree(t, Val(pat)))

apply_File(path, t) ==
    LET file == get_path(t, path) IN
    IF file[1] = "blob" THEN Ok(replace_subtree(path, file, empty_tree))
    ELSE Ok(empty_tree)

apply_Subdir(path, t) ==
    LET x == get_path(t, path) IN
    Ok(IF x[1] = "tree" THEN x[2] ELSE empty_tree)

apply_Prefix(path, t) == Ok(replace_subtree(path, <<"tree", t>>, empty_tree))

unapply_File(path, t, parent) ==
    LET file == get_path(t, path) IN
    IF file[1] = "blob" THEN Ok(replace_subtree(path, file, parent))
    ELSE Ok(empty_tree)

unapply_Glob(pattern, t, parent) ==
    LET pat == PatternNew(pattern) IN
    IF ~IsOk(pat) THEN pat
    ELSE Ok(overlay(parent, subtract_tree(t, Val(pat))))

unapply_Prefix(path, t, parent) ==
    LET x == get_path(t, path) IN
    Ok(IF x[1] = "tree" THEN x[2] ELSE empty_tree)

unapply_Subdir(path, t, parent) == Ok(replace_subtree(path, <<"tree", t>>, parent))

\* Every call of the engine into itself goes through call: its argument is
\* the callee's name followed by the callee's arguments.
RECURSIVE call(_)

apply(f, t, stack) == call(<<"apply2", to_op(f), t, stack>>)

unapply(f, t, parent, stack) == call(<<"unapply2", to_op(f), t, parent, stack>>)

\* The `?` of the code: a step that takes the result r of the step before it
\* returns r when r is not Ok.  Each step below is one statement of the code,
\* its operands the results of the statements before it.

\* filters.iter().map(|f| apply(f, tree)).collect::<JoshResult<_>>()
cons_ok(x, r) == IF ~IsOk(r) THEN r ELSE Ok(<<x>> \o Val(r))

apply_rest(rest, t, stack, h) ==
    IF ~IsOk(h) THEN h ELSE cons_ok(Val(h), call(<<"apply_each", rest, t, stack>>))

apply_each(filters, t, stack) ==
    IF filters = <<>> THEN Ok(<<>>)
    ELSE apply_rest(Tail(filters), t, stack, apply(Head(filters), t, stack))

\* Ok(find_tree(subtract_fast(af, ba)))
subtract_result(af, ba) ==
    IF ~IsOk(ba) THEN ba ELSE Ok(subtract_fast(af, Val(ba)))

\* let ba = apply(a, bu)?
subtract_ba(a, stack, af, bu) ==
    IF ~IsOk(bu) THEN bu ELSE subtract_result(af, apply(a, Val(bu), stack))

\* let bu = unapply(b, bf, empty_tree)?
subtract_bu(a, b, stack, af, bf) ==
    IF ~IsOk(af) THEN af
    ELSE IF ~IsOk(bf) THEN bf
    ELSE subtract_ba(a, stack, Val(af), unapply(b, Val(bf), empty_tree, stack))

apply_Subtract(a, b, t, stack) ==
    subtract_bu(a, b, stack, apply(a, t, stack), apply(b, t, stack))

apply_cw(t, stack, cw) ==
    IF ~IsOk(cw) THEN cw ELSE call(<<"apply2", Compose(Val(cw)), t, stack>>)

apply_Workspace(path, t, stack) ==
    IF <<"apply", path, t>> \in stack THEN Loop(<<"apply", path, t>>)
    ELSE apply_cw(t, stack \cup {<<"apply", path, t>>},
                  compose_filter_from_ws_no_fail(t, path))

chain_b(b, stack, x) == IF ~IsOk(x) THEN x ELSE apply(b, Val(x), stack)

apply_Chain(a, b, t, stack) == chain_b(b, stack, apply(a, t, stack))

compose_result(filtered) ==
    IF ~IsOk(filtered) THEN filtered ELSE Ok(compose(Val(filtered)))

apply2(op, t, stack) ==
    CASE op[1] \in {"Nop", "Fold", "Squash"} -> Ok(t)
      [] op[1] = "Empty" -> Ok(empty_tree)
      [] op[1] = "Glob" -> apply_Glob(op[2], t)
      [] op[1] = "File" -> apply_File(op[2], t)
      [] op[1] = "Subdir" -> apply_Subdir(op[2], t)
      [] op[1] = "Prefix" -> apply_Prefix(op[2], t)
      [] op[1] = "Subtract" -> apply_Subtract(op[2], op[3], t, stack)
      [] op[1] = "Dirs" -> Ok(dirtree(t))
      [] op[1] = "Workspace" -> apply_Workspace(op[2], t, stack)
      [] op[1] = "Compose" -> compose_result(apply_each(op[2], t, stack))
      [] op[1] = "Chain" -> apply_Chain(op[2], op[3], t, stack)

\* unapply(a, x, parent_tree)
unchain_a(a, parent, stack, x) ==
    IF ~IsOk(x) THEN x ELSE unapply(a, Val(x), parent, stack)

\* let x = unapply(b, tree, p)?
unchain_b(a, b, t, parent, stack, p) ==
    IF ~IsOk(p) THEN p
    ELSE unchain_a(a, parent, stack, unapply(b, t, Val(p), stack))

unapply_Chain(a, b, t, parent, stack) ==
    unchain_b(a, b, t, parent, stack, apply(a, parent, stack))

unapply_cw(path, t, parent, stack, cw) ==
    IF ~IsOk(cw) THEN cw
    ELSE call(<<"unapply2", Compose(<<to_filter(Subdir(path))>> \o Val(cw)),
                t, parent, stack>>)

unapply_Workspace(path, t, parent, stack) ==
    IF <<"unapply", path, t, parent>> \in stack
    THEN Loop(<<"unapply", path, t, parent>>)
    ELSE unapply_cw(path, t, parent, stack \cup {<<"unapply", path, t, parent>>},
                    build_compose_filter(string_blob(t, <<WsFile>>)))

\* remaining = subtract_fast(remaining, reapply), then the next filter
uncompose_next(filters, n, remaining, res, stack, reapply) ==
    IF ~IsOk(reapply) THEN reapply
    ELSE call(<<"unapply_Compose", filters, n - 1,
                <<subtract_fast(remaining, Val(reapply)), res>>, stack>>)

\* let reapply = apply(other, from_empty)?
uncompose_reapply(filters, n, remaining, stack, from_empty, res) ==
    IF ~IsOk(res) THEN res
    ELSE uncompose_next(filters, n, remaining, Val(res), stack,
                        apply(filters[n], from_empty, stack))

\* if empty_tree_id() == from_empty.id() { continue; }
\* result = unapply(other, remaining, result)?
uncompose_embed(filters, n, state, stack, from_empty) ==
    IF ~IsOk(from_empty) THEN from_empty
    ELSE IF empty_tree = Val(from_empty)
    THEN call(<<"unapply_Compose", filters, n - 1, state, stack>>)
    ELSE uncompose_reapply(filters, n, state[1], stack, Val(from_empty),
                           unapply(filters[n], state[1], state[2], stack))

\* The loop of unapply2's Compose arm over filters[1..n], last first; state
\* is <<remaining, result>>.
unapply_Compose(filters, n, state, stack) ==
    IF n = 0 THEN Ok(state[2])
    ELSE uncompose_embed(filters, n, state, stack,
                         unapply(filters[n], state[1], empty_tree, stack))

unsubtract_overlay(t, parent, bu) ==
    IF ~IsOk(bu) THEN bu ELSE Ok(overlay(parent, subtract_fast(t, Val(bu))))

unapply_Subtract(a, b, t, parent, stack) ==
    IF to_op(a) = Nop
    THEN unsubtract_overlay(t, parent,
                            call(<<"unapply2", to_op(b), t, empty_tree, stack>>))
    ELSE Err("NotReversible")

unapply2(op, t, parent, stack) ==
    CASE op[1] = "Nop" -> Ok(t)
      [] op[1] = "Chain" -> unapply_Chain(op[2], op[3], t, parent, stack)
      [] op[1] = "Workspace" -> unapply_Workspace(op[2], t, parent, stack)
      [] op[1] = "Compose" ->
            unapply_Compose(op[2], Len(op[2]), <<t, parent>>, stack)
      [] op[1] = "File" -> unapply_File(op[2], t, parent)
      [] op[1] = "Subtract" -> unapply_Subtract(op[2], op[3], t, parent, stack)
      [] op[1] = "Glob" -> unapply_Glob(op[2], t, parent)
      [] op[1] = "Prefix" -> unapply_Prefix(op[2], t, parent)
      [] op[1] = "Subdir" -> unapply_Subdir(op[2], t, parent)
      [] OTHER -> Err("NotReversible")

call(c) ==
    CASE c[1] = "apply2" -> apply2(c[2], c[3], c[4])
      [] c[1] = "unapply2" -> unapply2(c[2], c[3], c[4], c[5])
      [] c[1] = "apply_each" -> apply_each(c[2], c[3], c[4])
      [] c[1] = "unapply_Compose" -> unapply_Compose(c[2], c[3], c[4], c[5])

(***************************************************************************)
(* Repository and transaction.  A commit is addressed by its content:      *)
(* <<"commit", tree, parent ids, metadata, provenance>>.  st is the state  *)
(* the engine works on: st.memo the transaction's memoization table, a set *)
(* of <<filter, commit id, result id>>, and st.repo the commits the        *)
(* repository holds.                                                       *)
(***************************************************************************)
zero == <<"zero">>
NoProvenance == <<>>
Commit(t, parents, meta, prov) == <<"commit", t, parents, meta, prov>>
commit_tree(c) == c[2]
parent_ids(c) == c[3]

\* repo.find_commit(id)
find_commit(st, id) == IF id \in st.repo THEN Ok(id) ELSE Err("StoreError")

\* transaction.get(filter, id): None or <<"Some", oid>>.
transaction_get(st, f, id) ==
    IF \E m \in st.memo : m[1] = f /\ m[2] = id
    THEN <<"Some", (CHOOSE m \in st.memo : m[1] = f /\ m[2] = id)[3]>>
    ELSE None

\* transaction.insert(filter, id, result)
transaction_insert(st, f, id, result) ==
    [st EXCEPT !.memo = {m \in @ : ~(m[1] = f /\ m[2] = id)} \cup {<<f, id, result>>}]

\* history::rewrite_commit(repo, base, parents, tree): write a commit with the
\* tree and parents given and base's metadata.
rewrite_commit(st, base, parents, t) ==
    LET c == Commit(t, parents, base[4], NoProvenance) IN
    <<Ok(c), [st EXCEPT !.repo = @ \cup {c}]>>

NonZero(ids) == LET Keep(x) == x # zero IN SelectSeq(ids, Keep)

\* history::create_filtered_commit: omit the parents that filtered to the null
\* id, write the commit with provenance (filter, source commit), record the
\* result in the memoization table and return it.  A commit that filters to
\* nothing (empty tree, no parent left) is the null id where the policy
\* prunes it.
create_filtered_commit(commit, filtered_parent_ids, filtered_tree, st, f) ==
    LET parents == NonZero(filtered_parent_ids)
        nothing == prune_empty /\ parents = <<>> /\ filtered_tree = empty_tree
        c == Commit(filtered_tree, parents, commit[4], <<f, commit>>)
        id == IF nothing THEN zero ELSE c
        written == IF nothing THEN st ELSE [st EXCEPT !.repo = @ \cup {c}]
    IN  <<Ok(id), transaction_insert(written, f, commit, id)>>

(***************************************************************************)
(* History engine: apply_to_commit2.  Every result is a pair               *)
(* <<JoshResult, st>>: the value returned and the state left behind.       *)
(***************************************************************************)
\* Every call of the history engine into itself goes through run: its
\* argument is the callee's name followed by the callee's arguments.
RECURSIVE run(_)

apply_to_commit(f, commit, st) == run(<<"apply_to_commit2", to_op(f), commit, st>>)

\* history::walk2(filter, input, transaction): the filtered id of commit input,
\* from the memoization table or by filtering it.
walk_commit(f, st, c) ==
    IF ~IsOk(c) THEN <<c, st>> ELSE apply_to_commit(f, Val(c), st)

walk_hit(f, input, st, hit) ==
    IF hit # None THEN <<Ok(hit[2]), st>>
    ELSE walk_commit(f, st, find_commit(st, input))

walk2(f, input, st) == walk_hit(f, input, st, transaction_get(st, f, input))

\* The `?` over a result with state: a step that takes the pair r of the step
\* before it returns r when its result is not Ok.
cons_id(x, r) ==
    IF ~IsOk(r[1]) THEN r ELSE <<Ok(<<x>> \o Val(r[1])), r[2]>>

\* ids.map(|x| walk2(filter, x, transaction)).collect::<JoshResult<_>>()
walk_rest(f, rest, h) ==
    IF ~IsOk(h[1]) THEN h
    ELSE cons_id(Val(h[1]), run(<<"walk_each", f, rest, h[2]>>))

walk_each(f, ids, st) ==
    IF ids = <<>> THEN <<Ok(<<>>), st>>
    ELSE walk_rest(f, Tail(ids), walk2(f, Head(ids), st))

\* filters.map(|f| apply_to_commit(f, commit, transaction)).collect()
atc_rest(rest, commit, h) ==
    IF ~IsOk(h[1]) THEN h
    ELSE cons_id(Val(h[1]), run(<<"atc_each", rest, commit, h[2]>>))

atc_each(filters, commit, st) ==
    IF filters = <<>> THEN <<Ok(<<>>), st>>
    ELSE atc_rest(Tail(filters), commit, apply_to_commit(Head(filters), commit, st))

\* ids.map(|id| Ok(repo.find_commit(id)?.tree())).collect()
tree_cons(c, r) ==
    IF ~IsOk(r) THEN r ELSE Ok(<<commit_tree(c)>> \o Val(r))

RECURSIVE trees_of(_, _)
trees_of(st, ids) ==
    IF ids = <<>> THEN Ok(<<>>)
    ELSE IF ~IsOk(find_commit(st, Head(ids))) THEN find_commit(st, Head(ids))
    ELSE tree_cons(Head(ids), trees_of(st, Tail(ids)))

chain_second(b, r) ==
    IF ~IsOk(r[1]) THEN r
    ELSE IF IsOk(find_commit(r[2], Val(r[1])))
         THEN apply_to_commit(b, Val(r[1]), r[2])
         ELSE <<Ok(zero), r[2]>>

atc_Chain(a, b, commit, st) == chain_second(b, apply_to_commit(a, commit, st))

\* Squash that keeps the parents of the commit.
atc_Squash_keeps_parents(commit, st) ==
    rewrite_commit(st, commit, parent_ids(commit), commit_tree(commit))

atc_Squash(commit, st) == rewrite_commit(st, commit, <<>>, commit_tree(commit))

\* treeops::compose over the trees of the branches that are not null
compose_trees(st, trees) ==
    IF ~IsOk(trees) THEN <<trees, st>> ELSE <<Ok(compose(Val(trees))), st>>

compose_filtered(filtered) ==
    IF ~IsOk(filtered[1]) THEN filtered
    ELSE compose_trees(filtered[2], trees_of(filtered[2], NonZero(Val(filtered[1]))))

\* The Compose arm: the filtered tree.
atc_Compose(filters, commit, st) == compose_filtered(atc_each(filters, commit, st))

RECURSIVE overlay_all(_, _)
overlay_all(t, trees) ==
    IF trees = <<>> THEN t ELSE overlay_all(overlay(t, Head(trees)), Tail(trees))

\* for t in trees { filtered_tree = overlay(filtered_tree, t)? }
fold_overlay(commit, st, trees) ==
    IF ~IsOk(trees) THEN <<trees, st>>
    ELSE <<Ok(overlay_all(commit_tree(commit), Val(trees))), st>>

\* let trees = filtered_parent_ids.map(|x| find_commit(x)?.tree_id()).collect()?
fold_trees(commit, filtered_parent_ids) ==
    IF ~IsOk(filtered_parent_ids[1]) THEN filtered_parent_ids
    ELSE fold_overlay(commit, filtered_parent_ids[2],
                      trees_of(filtered_parent_ids[2], Val(filtered_parent_ids[1])))

\* The Fold arm: the filtered tree.
atc_Fold(f, commit, st) == fold_trees(commit, walk_each(f, parent_ids(commit), st))

\* find_commit(id).map(|x| x.tree_id()).unwrap_or(empty_tree_id())
tree_or_empty(st, id) ==
    IF IsOk(find_commit(st, id)) THEN commit_tree(id) ELSE empty_tree

\* The tree of a's side, nothing subtracted.
atc_subtract_result_whole(af, st, ba) ==
    IF ~IsOk(ba) THEN <<ba, st>> ELSE <<Ok(af), st>>

\* subtract_fast(af, ba)
atc_subtract_result(af, st, ba) ==
    IF ~IsOk(ba) THEN <<ba, st>> ELSE <<Ok(subtract_fast(af, Val(ba))), st>>

\* let ba = apply(a, bu)?
atc_subtract_ba(a, af, st, bu) ==
    IF ~IsOk(bu) THEN <<bu, st>>
    ELSE atc_subtract_result(af, st, apply(a, Val(bu), {}))

\* let bf = tree of apply_to_commit(b, commit)?; let bu = unapply(b, bf, empty)?
atc_subtract_bu(a, b, af, rb) ==
    IF ~IsOk(rb[1]) THEN rb
    ELSE atc_subtract_ba(a, af, rb[2],
                         unapply(b, tree_or_empty(rb[2], Val(rb[1])), empty_tree, {}))

\* let af = tree of apply_to_commit(a, commit)?
atc_subtract_bf(a, b, commit, ra) ==
    IF ~IsOk(ra[1]) THEN ra
    ELSE atc_subtract_bu(a, b, tree_or_empty(ra[2], Val(ra[1])),
                         apply_to_commit(b, commit, ra[2]))

\* The Subtract arm: the filtered tree.
atc_Subtract(a, b, commit, st) ==
    atc_subtract_bf(a, b, commit, apply_to_commit(a, commit, st))

\* apply_to_commit2(Subtract(Compose(cw), Compose(pcw)), parent, transaction)
extra_rest(cw, ws_path, rest, h) ==
    IF ~IsOk(h[1]) THEN h
    ELSE cons_id(Val(h[1]), run(<<"extra_parents", cw, ws_path, rest, h[2]>>))

extra_parent(cw, ws_path, rest, parent, st, pcw) ==
    IF ~IsOk(pcw) THEN <<pcw, st>>
    ELSE extra_rest(cw, ws_path, rest,
                    run(<<"apply_to_commit2",
                          Subtract(to_filter(Compose(cw)), to_filter(Compose(Val(pcw)))),
                          parent, st>>))

\* The extra parents of a Workspace commit: each parent filtered by what the
\* commit's workspace has and the parent's has not.
extra_parents(cw, ws_path, parents, st) ==
    IF parents = <<>> THEN <<Ok(<<>>), st>>
    ELSE IF ~IsOk(find_commit(st, Head(parents)))
    THEN <<find_commit(st, Head(parents)), st>>
    ELSE extra_parent(cw, ws_path, Tail(parents), Head(parents), st,
                      compose_filter_from_ws_no_fail(commit_tree(Head(parents)), ws_path))

\* A Workspace commit written with every id of filtered_parent_ids.
ws_create_every_parent(f, commit, filtered_parent_ids, st, filtered_tree) ==
    IF ~IsOk(filtered_tree) THEN <<filtered_tree, st>>
    ELSE <<Ok(Commit(Val(filtered_tree), filtered_parent_ids, commit[4], <<f, commit>>)),
           transaction_insert(
               [st EXCEPT !.repo = @ \cup {Commit(Val(filtered_tree), filtered_parent_ids,
                                                  commit[4], <<f, commit>>)}],
               f, commit,
               Commit(Val(filtered_tree), filtered_parent_ids, commit[4], <<f, commit>>))>>

\* history::create_filtered_commit(commit, filtered_parent_ids, filtered_tree, ..)
ws_create(f, commit, filtered_parent_ids, st, filtered_tree) ==
    IF ~IsOk(filtered_tree) THEN <<filtered_tree, st>>
    ELSE create_filtered_commit(commit, filtered_parent_ids, Val(filtered_tree), st, f)

\* normal_parents.chain(extra_parents); apply(filter, commit.tree())?
ws_tree(f, commit, normal_parents, extra) ==
    IF ~IsOk(extra[1]) THEN extra
    ELSE ws_create(f, commit, normal_parents \o Val(extra[1]), extra[2],
                   apply(f, commit_tree(commit), {}))

\* let cw = compose_filter_from_ws_no_fail(commit.tree(), ws_path)?
ws_extra(f, ws_path, commit, normal_parents, st, cw) ==
    IF ~IsOk(cw) THEN <<cw, st>>
    ELSE ws_tree(f, commit, normal_parents,
                 extra_parents(Val(cw), ws_path, parent_ids(commit), st))

ws_cw(f, ws_path, commit, normal_parents) ==
    IF ~IsOk(normal_parents[1]) THEN normal_parents
    ELSE ws_extra(f, ws_path, commit, Val(normal_parents[1]), normal_parents[2],
                  compose_filter_from_ws_no_fail(commit_tree(commit), ws_path))

\* The Workspace arm, which creates the filtered commit itself.
atc_Workspace(f, ws_path, commit, st) ==
    ws_cw(f, ws_path, commit, walk_each(f, parent_ids(commit), st))

\* history::create_filtered_commit(commit, filtered_parent_ids, filtered_tree, ..)
atc_commit(f, commit, filtered_tree, filtered_parent_ids) ==
    IF ~IsOk(filtered_parent_ids[1]) THEN filtered_parent_ids
    ELSE create_filtered_commit(commit, Val(filtered_parent_ids[1]), filtered_tree,
                                filtered_parent_ids[2], f)

\* The tail of apply_to_commit2: the normal parent walk and the filtered commit.
atc_create(f, commit, filtered_tree) ==
    IF ~IsOk(filtered_tree[1]) THEN filtered_tree
    ELSE atc_commit(f, commit, Val(filtered_tree[1]),
                    walk_each(f, parent_ids(commit), filtered_tree[2]))

\* let filtered_tree = match &to_op(filter) { .. }
atc_tree(f, commit, st) ==
    CASE to_op(f)[1] = "Compose" -> atc_Compose(to_op(f)[2], commit, st)
      [] to_op(f)[1] = "Fold" -> atc_Fold(f, commit, st)
      [] to_op(f)[1] = "Subtract" -> atc_Subtract(to_op(f)[2], to_op(f)[3], commit, st)
      [] OTHER -> <<apply(f, commit_tree(commit), {}), st>>

\* apply_to_commit2 past the short-circuits and the memo lookup.
atc_filtered(f, commit, st) ==
    IF to_op(f)[1] = "Workspace" THEN atc_Workspace(f, to_op(f)[2], commit, st)
    ELSE atc_create(f, commit, atc_tree(f, commit, st))

\* The memo lookup of apply_to_commit2.
memo_lookup(st, f, commit) == transaction_get(st, f, commit)

\* A hit that is answered with the commit asked about.
atc_memo_unfiltered(f, commit, st, hit) ==
    IF hit # None THEN <<Ok(commit), st>> ELSE atc_filtered(f, commit, st)

atc_memo(f, commit, st, hit) ==
    IF hit # None THEN <<Ok(hit[2]), st>> ELSE atc_filtered(f, commit, st)

\* match &to_op(filter) of apply_to_commit2
atc_match(f, commit, st) ==
    CASE to_op(f)[1] = "Nop" -> <<Ok(commit), st>>
      [] to_op(f)[1] = "Empty" -> <<Ok(zero), st>>
      [] to_op(f)[1] = "Chain" -> atc_Chain(to_op(f)[2], to_op(f)[3], commit, st)
      [] to_op(f)[1] = "Squash" -> atc_Squash(commit, st)
      [] OTHER -> atc_memo(f, commit, st, memo_lookup(st, f, commit))

apply_to_commit2(op, commit, st) == atc_match(optimize(to_filter(op)), commit, st)

run(c) ==
    CASE c[1] = "apply_to_commit2" -> apply_to_commit2(c[2], c[3], c[4])
      [] c[1] = "walk_each" -> walk_each(c[2], c[3], c[4])
      [] c[1] = "atc_each" -> atc_each(c[2], c[3], c[4])
      [] c[1] = "extra_parents" -> extra_parents(c[2], c[3], c[4], c[5])

(***************************************************************************)
(* SpecTree: the tree engine on bounded inputs.                            *)
(***************************************************************************)
MaxEntries == 2

Names == {"a", "b"}
InPaths == {<<"a">>, <<"b">>, <<"a", "a">>, <<"a", "b">>}
DataBlobs == {"x", "y"}

IsTree(t) ==
    \A e1 \in t, e2 \in t : e1 # e2 => ~Comparable(e1[1], e2[1])

Trees ==
    {t \in SUBSET (InPaths \X DataBlobs) : Cardinality(t) <= MaxEntries /\ IsTree(t)}

GlobStar == <<"*">>
GlobBad == <<"[">>

ReversibleAtoms ==
    {Nop, Subdir(<<"a">>), Prefix(<<"a">>), File(<<"a">>), File(<<"a", "b">>),
     Glob(GlobStar)}

IrreversibleAtoms == {Empty, Fold, Squash, Dirs, Glob(GlobBad)}

Mount_a == to_filter(Chain(to_filter(Subdir(<<"a">>)), to_filter(Prefix(<<"a">>))))

TreeFilters ==
    ReversibleAtoms \cup IrreversibleAtoms
    \cup {to_filter(Chain(a, b)) : a \in ReversibleAtoms, b \in ReversibleAtoms}
    \cup {to_filter(Compose(<<a, b>>)) : a \in ReversibleAtoms, b \in ReversibleAtoms}
    \cup {to_filter(Subtract(to_filter(Nop), b)) :
            b \in ReversibleAtoms \cup IrreversibleAtoms}
    \cup {to_filter(Subtract(a, to_filter(Dirs))) : a \in ReversibleAtoms}
    \cup {to_filter(Compose(<<Mount_a, to_filter(File(<<"b">>))>>)),
          to_filter(Subtract(to_filter(Nop),
                             to_filter(Compose(<<to_filter(File(<<"a">>))>>))))}

\* The reversible subset: Nop, Subdir, Prefix, File, Glob, and Chain, Compose
\* and Subtract(Nop, b) over reversible parts.
RECURSIVE Reversible(_)
Reversible(f) ==
    LET op == to_op(f) IN
    CASE op[1] \in {"Nop", "Subdir", "Prefix", "File"} -> TRUE
      [] op[1] = "Glob" -> IsOk(PatternNew(op[2]))
      [] op[1] = "Chain" -> Reversible(op[2]) /\ Reversible(op[3])
      [] op[1] = "Compose" -> \A i \in 1..Len(op[2]) : Reversible(op[2][i])
      [] op[1] = "Subtract" -> to_op(op[2]) = Nop /\ Reversible(op[3])
      [] OTHER -> FALSE

NoThread == "none"

TreeIdle ==
    /\ pc = "idle" /\ filter = <<"Nop">> /\ tree = {} /\ parent_tree = {}
    /\ un_out = <<"None", {}>> /\ ap_out = <<"None", {}>>

HistIdle ==
    /\ commits = <<>> /\ prune_empty = FALSE /\ memo = {} /\ store = {}
    /\ out = <<"None", {}>> /\ evals = <<>>

RegIdle ==
    /\ FILTERS = {} /\ lock = NoThread /\ tpc = <<>> /\ targ = <<>> /\ issued = {}

LoopIdle ==
    /\ loop_i = 0 /\ loop_remaining = {} /\ loop_result = {} /\ loop_visited = <<>>

InitTree ==
    /\ HistIdle /\ RegIdle /\ LoopIdle
    /\ pc = "start"
    /\ filter \in TreeFilters
    /\ tree \in Trees
    /\ parent_tree \in Trees
    /\ un_out = None
    /\ ap_out = None

\* unapply(repo, filter, tree, parent_tree)
Unapply ==
    /\ pc = "start"
    /\ un_out' = unapply(filter, tree, parent_tree, {})
    /\ pc' = "unapplied"
    /\ UNCHANGED <<filter, tree, parent_tree, ap_out, histVars, regVars, loopVars>>

\* apply(repo, filter, x) on the tree unapply returned
Reapply ==
    /\ pc = "unapplied"
    /\ IsOk(un_out)
    /\ ap_out' = apply(filter, Val(un_out), {})
    /\ pc' = "roundtrip"
    /\ UNCHANGED <<filter, tree, parent_tree, un_out, histVars, regVars, loopVars>>

\* apply(repo, filter, tree)
Apply ==
    /\ pc = "start"
    /\ ap_out' = apply(filter, tree, {})
    /\ pc' = "applied"
    /\ UNCHANGED <<filter, tree, parent_tree, un_out, histVars, regVars, loopVars>>

NextTree == Unapply \/ Reapply \/ Apply

SpecTree == InitTree /\ [][NextTree]_vars

\* U restricted to f's image: what f yields from the part of U it can embed.
RestrictToImage(f, u) == apply(f, Val(unapply(f, u, empty_tree, {})), {})

\* C1: for every reversible filter f, derived tree U and parent tree P,
\* apply(unapply(U, f, P), f) equals U restricted to f's image.
C1_RoundTrip ==
    (pc = "roundtrip" /\ Reversible(filter))
        => ap_out = RestrictToImage(filter, tree)

\* An entry of P lies outside f's image when f maps it to nothing.
Outside(f, e) == apply(f, {e}, {}) = Ok(empty_tree)

\* C2: for every reversible filter f, every entry of P at a path that f does
\* not map into its output is still present, unchanged, in unapply(U, f, P).
C2_ParentPreserved ==
    (pc = "unapplied" /\ Reversible(filter) /\ IsOk(un_out))
        => \A e \in parent_tree : Outside(filter, e) => e \in Val(un_out)

\* The filters whose every Glob pattern compiles.
RECURSIVE WellFormed(_)
WellFormed(f) ==
    LET op == to_op(f) IN
    CASE op[1] = "Glob" -> IsOk(PatternNew(op[2]))
      [] op[1] \in {"Chain", "Subtract"} -> WellFormed(op[2]) /\ WellFormed(op[3])
      [] op[1] = "Compose" -> \A i \in 1..Len(op[2]) : WellFormed(op[2][i])
      [] OTHER -> TRUE

\* C3: apply is total: for every filter and every input tree it returns a
\* tree, never an error.
C3_ApplyTotal == (pc = "applied" /\ WellFormed(filter)) => IsOk(ap_out)

(***************************************************************************)
(* SpecWs: the tree engine on Workspace filters, over trees that hold a    *)
(* workspace.josh.                                                         *)
(***************************************************************************)
WsBlobs == {"x", "y", "ws_lib", "ws_self", "ws_bogus"}
WsPath == <<"a">>
WsRest == {<<<<"b", "a">>, "x">>, <<<<"a", "a">>, "y">>}

WsTrees ==
    {ws \cup rest :
        ws \in {{}} \cup {{<<WsPath \o <<WsFile>>, b>>} : b \in WsBlobs}
                    \cup {{<<<<WsFile>>, b>>} : b \in WsBlobs},
        rest \in {r \in SUBSET WsRest : Cardinality(r) <= MaxEntries}}

WsFilters ==
    {to_filter(Workspace(WsPath)),
     to_filter(Chain(to_filter(Workspace(WsPath)), to_filter(Prefix(<<"b">>))))}

InitWs ==
    /\ HistIdle /\ RegIdle /\ LoopIdle
    /\ pc = "start"
    /\ filter \in WsFilters
    /\ tree \in WsTrees
    /\ parent_tree \in SUBSET WsRest
    /\ un_out = None
    /\ ap_out = None

SpecWs == InitWs /\ [][NextTree]_vars

\* C4: evaluation of Workspace(p) terminates for every input tree: a
\* workspace.josh that refers back to Workspace(p) is refused, so apply never
\* re-enters the frame it is evaluating.
C4_WorkspaceTerminates == pc = "applied" => ~IsLoop(ap_out)

\* ws_path/workspace.josh exists, is valid UTF-8 and does not parse.
Malformed(t, ws_path) ==
    LET entry == get_path(t, ws_path \o <<WsFile>>) IN
    /\ entry[1] = "blob"
    /\ Content(entry[2]).utf8
    /\ ~IsOk(build_compose_filter(Content(entry[2]).text))

\* C9: when ws_path/workspace.josh is valid UTF-8 and fails to parse,
\* evaluating Workspace(ws_path) reports a ParseError to the caller.
C9_MalformedWorkspaceReported ==
    (pc = "applied" /\ Malformed(tree, WsPath)) => ap_out = Err("ParseError")

(***************************************************************************)
(* SpecHist: the history engine on bounded commit graphs.  One transaction *)
(* filters commits of the graph, in any order, under one filter.           *)
(***************************************************************************)
MaxEvals == 2

HistTrees ==
    {empty_tree,
     {<<<<"b", "a">>, "x">>},
     {<<WsPath \o <<WsFile>>, "ws_lib">>, <<<<"b", "a">>, "x">>}}

HistFilters ==
    {to_filter(Squash),
     to_filter(Fold),
     to_filter(Subdir(<<"b">>)),
     to_filter(Workspace(WsPath)),
     to_filter(Compose(<<to_filter(Subdir(<<"a">>)),
                         to_filter(Chain(to_filter(Subdir(<<"b">>)),
                                         to_filter(Prefix(<<"b">>))))>>)),
     to_filter(Chain(to_filter(Subdir(<<"b">>)), to_filter(Prefix(<<"lib">>)))),
     to_filter(Subtract(to_filter(Nop), to_filter(File(<<"b", "a">>))))}

\* The commit graphs: a root, a second commit on it or beside it, and a third
\* that follows the second or merges both; a line of three, a merge of a
\* commit and its parent, a merge of two roots.
Dags ==
    {<<c1, c2, c3>> :
        c1 \in {Commit(t, <<>>, "m1", NoProvenance) : t \in HistTrees},
        c2 \in {Commit(t, <<>>, "m2", NoProvenance) : t \in HistTrees},
        c3 \in {Commit(t, <<>>, "m3", NoProvenance) : t \in HistTrees}}

Link(d, second_on_root, merge) ==
    LET c1 == d[1]
        c2 == Commit(d[2][2], IF second_on_root THEN <<c1>> ELSE <<>>, "m2", NoProvenance)
        c3 == Commit(d[3][2], IF merge THEN <<c1, c2>> ELSE <<c2>>, "m3", NoProvenance)
    IN  <<c1, c2, c3>>

Inputs == {commits[i] : i \in 1..Len(commits)}

InitHist ==
    /\ RegIdle /\ LoopIdle
    /\ pc = "hist" /\ tree = {} /\ parent_tree = {} /\ un_out = None /\ ap_out = None
    /\ filter \in HistFilters
    /\ commits \in {Link(d, sm[1], sm[2]) :
                        d \in Dags, sm \in {<<TRUE, FALSE>>, <<TRUE, TRUE>>, <<FALSE, TRUE>>}}
    /\ prune_empty \in BOOLEAN
    /\ memo = {}
    /\ store = {}
    /\ out = None
    /\ evals = <<>>

\* The transaction as the engine sees it.
cur == [memo |-> memo, repo |-> Inputs \cup store]

\* apply_to_commit(f, commit, transaction)
Eval(f, c) ==
    /\ Len(evals) < MaxEvals
    /\ LET r == apply_to_commit(f, c, cur) IN
       /\ out' = <<f, c, r[1]>>
       /\ memo' = r[2].memo
       /\ store' = r[2].repo \ Inputs
       /\ evals' = Append(evals, <<c, r[1]>>)
    /\ UNCHANGED <<commits, prune_empty, treeVars, regVars, loopVars>>

NextHist == \E i \in 1..Len(commits) : Eval(filter, commits[i])

SpecHist == InitHist /\ [][NextHist]_vars

\* The call was made before in this transaction.
Again == \E i \in 1..(Len(evals) - 1) : evals[i][1] = evals[Len(evals)][1]

\* The result of apply_to_commit(f, c) in a transaction whose memoization
\* table is empty, over the commits the repository holds now.
FromEmpty(f, c) == apply_to_commit(f, c, [memo |-> {}, repo |-> Inputs \cup store])[1]

MemoFaithful ==
    /\ \A m \in memo :
          /\ FromEmpty(m[1], m[2]) = Ok(m[3])
          /\ apply_to_commit(m[1], m[2], cur)[1] = Ok(m[3])
          /\ \A n \in memo : (n[1] = m[1] /\ n[2] = m[2]) => n = m
    /\ out # None => out[3] = FromEmpty(out[1], out[2])
    /\ \A i, j \in 1..Len(evals) : evals[i][1] = evals[j][1] => evals[i][2] = evals[j][2]

\* C5: apply_to_commit(f, c) returns the same id from an empty memoization
\* table and from one filled by earlier evaluations; an entry get(f, c) is
\* the id a re-evaluation yields; entries are added, never changed.
C5_MemoFaithful ==
    /\ []MemoFaithful
    /\ [][\A m \in memo : m \in memo']_vars

\* A second evaluation that the table filled by the first one served.
C5_ServedFromMemo ==
    /\ Len(evals) = 2 /\ Again /\ IsOk(out[3])
    /\ <<out[1], out[2], Val(out[3])>> \in memo
    /\ parent_ids(out[2]) # <<>>

\* C6 as claimed: Squash gives a commit with the same tree and no parents,
\* and the (Squash, commit) result is recorded in the memoization table, from
\* which a second application is served.
C6_SquashCached ==
    (out # None /\ to_op(out[1]) = Squash) =>
        /\ IsOk(out[3])
        /\ commit_tree(Val(out[3])) = commit_tree(out[2])
        /\ parent_ids(Val(out[3])) = <<>>
        /\ transaction_get(cur, out[1], out[2]) = <<"Some", Val(out[3])>>

\* C6, amended: Squash gives a commit with the same tree and no parents,
\* and a second application to the same commit in the same transaction
\* returns the same id; the memoization table holds no (Squash, commit) entry:
\* the commit is rewritten again, to the same content address.
C6_SquashRewrites ==
    (out # None /\ to_op(out[1]) = Squash) =>
        /\ IsOk(out[3])
        /\ Val(out[3]) \in Inputs \cup store
        /\ commit_tree(Val(out[3])) = commit_tree(out[2])
        /\ parent_ids(Val(out[3])) = <<>>
        /\ \A i \in 1..Len(evals) : evals[i][1] = out[2] => evals[i][2] = out[3]
        /\ transaction_get(cur, out[1], out[2]) = None

\* Squash applied twice to a merge commit.
C6_SquashedMergeTwice ==
    /\ out # None /\ to_op(out[1]) = Squash
    /\ Len(parent_ids(out[2])) = 2
    /\ Again

\* The ids create_filtered_commit is handed for the parents of commit c under
\* filter f, as the memoization table holds them: the filtered id of each
\* parent and, for a Workspace, of each parent under what the commit's
\* workspace has and the parent's has not.
IdOf(hit) == IF hit = None THEN <<"missing">> ELSE hit[2]

NormalParentIds(f, c) ==
    [i \in 1..Len(parent_ids(c)) |-> IdOf(transaction_get(cur, f, parent_ids(c)[i]))]

ExtraFilter(ws_path, c, p) ==
    optimize(to_filter(Subtract(
        to_filter(Compose(Val(compose_filter_from_ws_no_fail(commit_tree(c), ws_path)))),
        to_filter(Compose(Val(compose_filter_from_ws_no_fail(commit_tree(p), ws_path)))))))

ExtraParentIds(f, c) ==
    IF to_op(f)[1] # "Workspace" THEN <<>>
    ELSE [i \in 1..Len(parent_ids(c)) |->
            IdOf(transaction_get(cur, ExtraFilter(to_op(f)[2], c, parent_ids(c)[i]),
                                 parent_ids(c)[i]))]

FilteredParentIds(f, c) == NormalParentIds(f, c) \o ExtraParentIds(f, c)

\* C7: a derived commit lists the filtered ids of its source's parents that
\* are not the null id, in order, and never the null id; for a Workspace
\* commit this covers the normal and the extra parents.
C7_NullParentsOmitted ==
    \A d \in store :
        /\ \A i \in 1..Len(parent_ids(d)) : parent_ids(d)[i] # zero
        /\ d[5] # NoProvenance =>
              parent_ids(d) = NonZero(FilteredParentIds(d[5][1], d[5][2]))

\* A Workspace commit one of whose parents filtered to the null id.
C7_WorkspaceNullParent ==
    \E d \in store :
        /\ d[5] # NoProvenance
        /\ to_op(d[5][1])[1] = "Workspace"
        /\ \E i \in 1..Len(FilteredParentIds(d[5][1], d[5][2])) :
              FilteredParentIds(d[5][1], d[5][2])[i] = zero

\* C8: when a parent's filtered form under Fold is the null id,
\* apply_to_commit(Fold, c) returns a commit id, not an error.
C8_FoldNullParent ==
    (/\ out # None /\ to_op(out[1]) = Fold
     /\ \E i \in 1..Len(parent_ids(out[2])) :
           transaction_get(cur, out[1], parent_ids(out[2])[i]) = <<"Some", zero>>)
        => IsOk(out[3])

(***************************************************************************)
(* SpecReg: the filter registry under threads.  FILTERS is a set of        *)
(* <<Filter id, Op>>, one per key; a thread interns Ops, looks ids up and  *)
(* pretty-prints, and does tree and commit I/O in between.  targ[t] holds  *)
(* what thread t is working on: the Op to intern, the ids still to look    *)
(* up, the Op the last lookup found.                                       *)
(***************************************************************************)
Threads == {"t1", "t2"}
Poisoned == "poisoned"

\* git2::Oid::hash_object(Blob, format!("{:?}", op)): the content address of
\* the Op's printed form, which names the variant and every field.
hash_object(op) == <<"oid", op>>

\* HashMap::insert and HashMap::get
insert(map, k, v) == {e \in map : e[1] # k} \cup {<<k, v>>}
get(map, k) ==
    IF \E e \in map : e[1] = k THEN <<"Some", (CHOOSE e \in map : e[1] = k)[2]>> ELSE None

LeafOps == {Nop, Subdir(<<"a">>)}
LeafIds == {hash_object(op) : op \in LeafOps}
InternOps == LeafOps \cup {Chain(a, b) : a \in issued \cap LeafIds, b \in issued \cap LeafIds}

Working(mode, op, pending, got) ==
    [mode |-> mode, op |-> op, pending |-> pending, got |-> got]

InitReg ==
    /\ TreeIdle /\ HistIdle /\ LoopIdle
    /\ FILTERS = {}
    /\ lock = NoThread
    /\ tpc = [t \in Threads |-> "idle"]
    /\ targ = [t \in Threads |-> Working("none", Nop, <<>>, Nop)]
    /\ issued = {}

\* FILTERS.lock().unwrap(): wait for the Mutex; panic when it is poisoned.
acquire(t, held) ==
    IF lock = Poisoned
    THEN /\ tpc' = [tpc EXCEPT ![t] = "panicked"]
         /\ UNCHANGED lock
    ELSE /\ lock = NoThread
         /\ lock' = t
         /\ tpc' = [tpc EXCEPT ![t] = held]

\* The guard is kept past the end of the statement.
release_forgotten(t) == lock' = lock

\* The MutexGuard temporary is dropped at the end of the statement.
release(t) == lock' = NoThread

\* A caller hands an Op to to_filter.
CallToFilter(t) ==
    /\ tpc[t] = "idle"
    /\ \E op \in InternOps : targ' = [targ EXCEPT ![t] = Working("intern", op, <<>>, Nop)]
    /\ tpc' = [tpc EXCEPT ![t] = "to_filter"]
    /\ UNCHANGED <<FILTERS, lock, issued, treeVars, histVars, loopVars>>

to_filter_lock(t) ==
    /\ tpc[t] = "to_filter"
    /\ acquire(t, "insert")
    /\ UNCHANGED <<FILTERS, targ, issued, treeVars, histVars, loopVars>>

to_filter_insert(t) ==
    /\ tpc[t] = "insert"
    /\ FILTERS' = insert(FILTERS, hash_object(targ[t].op), targ[t].op)
    /\ tpc' = [tpc EXCEPT ![t] = "inserted"]
    /\ UNCHANGED <<lock, targ, issued, treeVars, histVars, loopVars>>

to_filter_return(t) ==
    /\ tpc[t] = "inserted"
    /\ release(t)
    /\ issued' = issued \cup {hash_object(targ[t].op)}
    /\ tpc' = [tpc EXCEPT ![t] = "idle"]
    /\ UNCHANGED <<FILTERS, targ, treeVars, histVars, loopVars>>

\* A caller hands a Filter it was given to to_op, or to pretty.
CallToOp(t) ==
    /\ tpc[t] = "idle"
    /\ \E f \in issued, mode \in {"lookup", "pretty"} :
          targ' = [targ EXCEPT ![t] = Working(mode, Nop, <<f>>, Nop)]
    /\ tpc' = [tpc EXCEPT ![t] = "to_op"]
    /\ UNCHANGED <<FILTERS, lock, issued, treeVars, histVars, loopVars>>

to_op_lock(t) ==
    /\ tpc[t] = "to_op"
    /\ acquire(t, "get")
    /\ UNCHANGED <<FILTERS, targ, issued, treeVars, histVars, loopVars>>

\* .get(&filter).expect("unknown filter"): a panic under the guard poisons
\* the Mutex.
to_op_get(t) ==
    /\ tpc[t] = "get"
    /\ IF get(FILTERS, Head(targ[t].pending)) = None
       THEN /\ tpc' = [tpc EXCEPT ![t] = "panicked"]
            /\ lock' = Poisoned
            /\ UNCHANGED targ
       ELSE /\ tpc' = [tpc EXCEPT ![t] = "clone"]
            /\ targ' = [targ EXCEPT ![t].got = get(FILTERS, Head(targ[t].pending))[2]]
            /\ UNCHANGED lock
    /\ UNCHANGED <<FILTERS, issued, treeVars, histVars, loopVars>>

\* pretty2: match (to_op(*a), to_op(*b)) looks a up, then b.
pretty2(mode, op) ==
    IF mode = "pretty" /\ op[1] \in {"Chain", "Subtract"} THEN <<op[2], op[3]>> ELSE <<>>

\* .clone(), and the return to the caller, which goes on to its next lookup.
to_op_return(t) ==
    /\ tpc[t] = "clone"
    /\ release(t)
    /\ targ' = [targ EXCEPT ![t].pending = Tail(@) \o pretty2(targ[t].mode, targ[t].got)]
    /\ tpc' = [tpc EXCEPT ![t] =
                  IF targ'[t].pending = <<>> THEN "idle" ELSE "to_op"]
    /\ UNCHANGED <<FILTERS, issued, treeVars, histVars, loopVars>>

\* Tree and commit I/O of apply, unapply and apply_to_commit, between the
\* calls of to_op and to_filter.
StartIo(t) ==
    /\ tpc[t] = "idle"
    /\ tpc' = [tpc EXCEPT ![t] = "io"]
    /\ UNCHANGED <<FILTERS, lock, targ, issued, treeVars, histVars, loopVars>>

EndIo(t) ==
    /\ tpc[t] = "io"
    /\ tpc' = [tpc EXCEPT ![t] = "idle"]
    /\ UNCHANGED <<FILTERS, lock, targ, issued, treeVars, histVars, loopVars>>

NextReg ==
    \E t \in Threads :
        \/ CallToFilter(t) \/ to_filter_lock(t) \/ to_filter_insert(t)
        \/ to_filter_return(t)
        \/ CallToOp(t) \/ to_op_lock(t) \/ to_op_get(t) \/ to_op_return(t)
        \/ StartIo(t) \/ EndIo(t)

SpecReg == InitReg /\ [][NextReg]_vars

InCriticalSection(t) == tpc[t] \in {"insert", "inserted", "get", "clone"}

RegistrySafe ==
    /\ lock # Poisoned
    /\ \A t \in Threads :
          /\ tpc[t] # "panicked"
          /\ lock = t => InCriticalSection(t)
          /\ tpc[t] = "clone" => hash_object(targ[t].got) = Head(targ[t].pending)
    /\ \A f \in issued : get(FILTERS, f) # None
    /\ \A e \in FILTERS : hash_object(e[2]) = e[1]

\* C10: in every interleaving of threads calling to_filter and to_op the
\* lock is held only over the single insert or lookup, never while its
\* holder waits for it again or does I/O; no lookup of an issued id fails;
\* entries are only added and an id keeps denoting the same Op.
C10_RegistryUnderConcurrency ==
    /\ []RegistrySafe
    /\ [][\A e \in FILTERS : e \in FILTERS']_vars

\* One thread re-interns an id that is already issued while the other waits
\* for the lock inside pretty2.
C10_Contention ==
    \E t \in Threads, u \in Threads :
        /\ t # u
        /\ lock = t /\ tpc[t] = "inserted"
        /\ hash_object(targ[t].op) \in issued
        /\ tpc[u] = "to_op" /\ targ[u].mode = "pretty" /\ targ[u].got[1] = "Chain"

(***************************************************************************)
(* SpecCompose: the loop of unapply2's Compose arm, one iteration a step.  *)
(* tree is U, parent_tree is P; loop_visited records for every iteration   *)
(* the branch visited, whether it was skipped, and the entries it took     *)
(* out of remaining.                                                       *)
(***************************************************************************)
ComposeBranches ==
    {Subdir(<<"a">>), Prefix(<<"a">>), File(<<"a">>), File(<<"a", "b">>),
     Glob(GlobStar), Nop, Mount_a,
     to_filter(Chain(to_filter(Subdir(<<"a">>)), to_filter(Prefix(<<"b">>)))),
     to_filter(Subtract(to_filter(Nop), to_filter(File(<<"a">>))))}

ComposeFilters ==
    {to_filter(Compose(<<a, b>>)) : a \in ComposeBranches, b \in ComposeBranches}
    \cup {to_filter(Compose(<<a, b, c>>)) :
            a \in {Subdir(<<"a">>), File(<<"a", "b">>), Glob(GlobStar)},
            b \in {Prefix(<<"a">>), File(<<"a", "b">>), Mount_a},
            c \in {Subdir(<<"a">>), Glob(GlobStar), Nop}}

ParentTrees == {t \in Trees : Cardinality(t) <= 1}

\* let mut remaining = tree.clone(); let mut result = parent_tree.clone();
InitCompose ==
    /\ HistIdle /\ RegIdle
    /\ pc = "compose"
    /\ filter \in ComposeFilters
    /\ tree \in Trees
    /\ parent_tree \in ParentTrees
    /\ un_out = None
    /\ ap_out = None
    /\ loop_i = Len(to_op(filter)[2])
    /\ loop_remaining = tree
    /\ loop_result = parent_tree
    /\ loop_visited = <<>>

Visit(branch, skipped, took) == [branch |-> branch, skipped |-> skipped, took |-> took]

\* The subtraction is left out.
next_remaining_kept(remaining, reapply) == remaining

\* remaining = repo.find_tree(treeops::subtract_fast(remaining, reapply))
next_remaining(remaining, reapply) == subtract_fast(remaining, reapply)

\* A `?` of the loop body returns the error from unapply2.
ComposeFail(err) ==
    /\ pc' = "failed"
    /\ un_out' = err
    /\ UNCHANGED loopVars

\* if empty_tree_id() == from_empty.id() { continue; }
ComposeSkip ==
    /\ loop_i' = loop_i - 1
    /\ loop_visited' = Append(loop_visited, Visit(loop_i, TRUE, {}))
    /\ UNCHANGED <<pc, un_out, loop_remaining, loop_result>>

\* result = unapply(other, remaining, result)?; let reapply = apply(other,
\* from_empty)?; remaining = subtract_fast(remaining, reapply)
ComposeEmbed(other, from_empty, res) ==
    IF ~IsOk(res) THEN ComposeFail(res)
    ELSE IF ~IsOk(apply(other, from_empty, {})) THEN ComposeFail(apply(other, from_empty, {}))
    ELSE /\ loop_result' = Val(res)
         /\ loop_remaining' = next_remaining(loop_remaining, Val(apply(other, from_empty, {})))
         /\ loop_i' = loop_i - 1
         /\ loop_visited' =
               Append(loop_visited,
                      Visit(loop_i, FALSE,
                            loop_remaining \cap Val(apply(other, from_empty, {}))))
         /\ UNCHANGED <<pc, un_out>>

\* let from_empty = unapply(other, remaining, empty_tree)?
ComposeBody(other, from_empty) ==
    IF ~IsOk(from_empty) THEN ComposeFail(from_empty)
    ELSE IF empty_tree = Val(from_empty) THEN ComposeSkip
    ELSE ComposeEmbed(other, Val(from_empty),
                      unapply(other, loop_remaining, loop_result, {}))

\* One iteration of: for other in filters.iter().rev() { .. }
ComposeIteration ==
    /\ pc = "compose"
    /\ loop_i > 0
    /\ ComposeBody(to_op(filter)[2][loop_i],
                   unapply(to_op(filter)[2][loop_i], loop_remaining, empty_tree, {}))
    /\ UNCHANGED <<filter, tree, parent_tree, ap_out, histVars, regVars>>

\* return Ok(result);
ComposeReturn ==
    /\ pc = "compose"
    /\ loop_i = 0
    /\ pc' = "done"
    /\ un_out' = Ok(loop_result)
    /\ UNCHANGED <<filter, tree, parent_tree, ap_out, histVars, regVars, loopVars>>

NextCompose == ComposeIteration \/ ComposeReturn

SpecCompose == InitCompose /\ [][NextCompose]_vars

Branches == to_op(filter)[2]

\* The branches that claim entry e of U: those whose image of their own
\* inverse of U holds e.
Claimers(e) ==
    {i \in 1..Len(Branches) :
        e \in Val(apply(Branches[i], Val(unapply(Branches[i], tree, empty_tree, {})), {}))}

Last(S) == CHOOSE i \in S : \A j \in S : j <= i

\* The iterations that took entry e out of remaining.
TookBy(e) == {k \in 1..Len(loop_visited) : e \in loop_visited[k].took}

\* Branches are visited last first, what the iterations took is disjoint,
\* and the loop agrees with unapply.
ComposeOrdered ==
    /\ \A k \in 1..Len(loop_visited) : loop_visited[k].branch = Len(Branches) - k + 1
    /\ \A e \in tree : Cardinality(TookBy(e)) <= 1
    /\ loop_remaining \subseteq tree
    /\ pc = "done" => un_out = unapply(filter, tree, parent_tree, {})

\* Every entry of U that a branch claims is taken by the last declared branch
\* that claims it, and an entry no branch claims is taken by none.
ComposeLastClaimer ==
    pc = "done" =>
        \A e \in tree :
            IF Claimers(e) = {} THEN TookBy(e) = {}
            ELSE TookBy(e) = {Len(Branches) - Last(Claimers(e)) + 1}

\* An iteration skips the branch exactly when its inverse of remaining
\* against the empty tree is empty, and then changes neither tree; else it
\* removes the branch's image of that inverse from remaining, and with it
\* every entry of remaining that the branch pushed back (an entry without
\* which the inverse would differ).
ComposeStep ==
    (pc = "compose" /\ Len(loop_visited') = Len(loop_visited) + 1) =>
        LET other == Branches[loop_i]
            from_empty == Val(unapply(other, loop_remaining, empty_tree, {}))
            v == loop_visited'[Len(loop_visited')]
        IN  /\ v.skipped <=> from_empty = empty_tree
            /\ v.skipped => (loop_remaining' = loop_remaining /\ loop_result' = loop_result)
            /\ ~v.skipped =>
                  /\ loop_remaining' = loop_remaining \ Val(apply(other, from_empty, {}))
                  /\ loop_result' = Val(unapply(other, loop_remaining, loop_result, {}))
            /\ loop_remaining' \subseteq loop_remaining
            /\ ~v.skipped =>
                  \A e \in loop_remaining :
                      Val(unapply(other, loop_remaining \ {e}, empty_tree, {})) # from_empty
                          => e \notin loop_remaining'

\* C11: unapply of a Compose visits the branches in reverse declared order,
\* skips a branch whose inverse of remaining against the empty tree is
\* empty, removes apply(f, from_empty) from remaining after embedding, so
\* each entry of U goes through at most one branch, the last declared one
\* that claims it, and remaining only shrinks.
C11_ComposeInverse ==
    /\ [](ComposeOrdered /\ ComposeLastClaimer)
    /\ [][ComposeStep]_vars

\* Three branches, one skipped, and an entry of U that two branches claim.
C11_OverlapResolved ==
    /\ pc = "done" /\ Len(Branches) = 3
    /\ \E k \in 1..Len(loop_visited) : loop_visited[k].skipped
    /\ \E e \in tree : Cardinality(Claimers(e)) >= 2 /\ TookBy(e) # {}

(***************************************************************************)
(* SpecLift: the history engine against the tree engine, on a commit and   *)
(* its parent, under filters built from every operator.                    *)
(***************************************************************************)
LiftAtoms ==
    {Nop, Empty, Squash, Dirs, Fold, Subdir(<<"a">>), Subdir(<<"b">>),
     Prefix(<<"lib">>), File(<<"b", "a">>), Glob(GlobStar), Workspace(WsPath)}

Mount_b == to_filter(Chain(to_filter(Subdir(<<"b">>)), to_filter(Prefix(<<"b">>))))

LiftFilters ==
    LiftAtoms
    \cup {to_filter(Chain(x, y)) :
            x \in {Subdir(<<"b">>), Subdir(<<"a">>), Squash, Empty, Fold},
            y \in {Prefix(<<"lib">>), Subdir(<<"a">>), Dirs}}
    \cup {to_filter(Compose(<<x, y>>)) :
            x \in {Subdir(<<"a">>), Empty, Mount_b},
            y \in {Subdir(<<"b">>), File(<<"b", "a">>),
                   to_filter(Chain(to_filter(Subdir(<<"a">>)),
                                   to_filter(Prefix(<<"lib">>))))}}
    \cup {to_filter(Subtract(x, y)) :
            x \in {Nop, Subdir(<<"b">>),
                   to_filter(Compose(<<to_filter(Subdir(<<"a">>)), Mount_b>>))},
            y \in {File(<<"b", "a">>), Subdir(<<"b">>), Mount_b,
                   to_filter(Compose(<<to_filter(File(<<"b", "a">>))>>))}}

LiftTrees == HistTrees \cup {{<<<<"a", "b">>, "y">>}}

InitLift ==
    /\ RegIdle /\ LoopIdle
    /\ pc = "hist" /\ tree = {} /\ parent_tree = {} /\ un_out = None /\ ap_out = None
    /\ filter \in LiftFilters
    /\ commits \in
          {<<Commit(t1, <<>>, "m1", NoProvenance),
             Commit(t2, <<Commit(t1, <<>>, "m1", NoProvenance)>>, "m2", NoProvenance)>> :
                t1 \in LiftTrees, t2 \in LiftTrees}
    /\ prune_empty \in BOOLEAN
    /\ memo = {}
    /\ store = {}
    /\ out = None
    /\ evals = <<>>

SpecLift == InitLift /\ [][NextHist]_vars

RECURSIVE NoFold(_)
NoFold(f) ==
    LET op == to_op(f) IN
    CASE op[1] = "Fold" -> FALSE
      [] op[1] \in {"Chain", "Subtract"} -> NoFold(op[2]) /\ NoFold(op[3])
      [] op[1] = "Compose" -> \A i \in 1..Len(op[2]) : NoFold(op[2][i])
      [] OTHER -> TRUE

\* C12: for a filter without Fold, when apply_to_commit(f, c) returns an id
\* that is not the null id, the tree of that commit is apply(f, c.tree).
C12_CommitAgreesWithTree ==
    (out # None /\ NoFold(out[1]) /\ IsOk(out[3]) /\ Val(out[3]) # zero) =>
        apply(out[1], commit_tree(out[2]), {}) = Ok(commit_tree(Val(out[3])))

\* A Subtract one side of which filters the commit to the null id, with a
\* result that is a commit with entries.
C12_SubtractNullSide ==
    /\ out # None /\ to_op(out[1])[1] = "Subtract"
    /\ FromEmpty(to_op(out[1])[3], out[2]) = Ok(zero)
    /\ IsOk(out[3]) /\ Val(out[3]) # zero
    /\ commit_tree(Val(out[3])) # empty_tree
====
